---- MODULE Spec2Model ----
(***************************************************************************)
(* Model of reorth_mex.c, the MATLAB gateway of PROPACK's REORTH           *)
(*   [R_NEW,NORMR_NEW,NRE] = reorth(Q,R,NORMR,INDEX,ALPHA,METHOD)          *)
(* and of the reorthogonalization core it calls (reorth, declared at       *)
(* reorth_mex.c:69-71; its body is not in this file and is modelled from   *)
(* the specification, section 4.1).                                        *)
(*                                                                         *)
(* Number encodings (exact arithmetic, no rounding):                       *)
(*   - matrix and vector entries are integers;                             *)
(*   - a norm, a real number sqrt(s) with s a natural number, is stored as *)
(*     s (buffers prhs2 and plhs1 hold such values);                       *)
(*   - ALPHA and METHOD are stored in halves: h stands for h/2.            *)
(* Memory is a map from buffer names to flat arrays (column-major for Q),  *)
(* so that what a callee writes depends on the pointer it was handed.      *)
(***************************************************************************)
EXTENDS Integers, Sequences, FiniteSets

VARIABLES
    nrhs,           \* number of right-hand-side arguments supplied
    nlhs,           \* number of outputs requested
    QM,             \* mxGetM(prhs[0]): rows of Q
    mem,            \* buffer name -> array contents
    allocated,      \* buffers currently allocated by the gateway
    overread,       \* buffers that were read past their length
    n, k1, k,       \* locals of mexFunction
    imethod, inre,
    columnIndex,    \* the buffer columnIndex points to
    DEFAULT_INDEX,
    pc,             \* position in mexFunction
    err             \* error raised, "" when none

vars == <<nrhs, nlhs, QM, mem, allocated, overread, n, k1, k, imethod, inre,
          columnIndex, DEFAULT_INDEX, pc, err>>

----------------------------------------------------------------------------
(* Bounds of the model *)

MaxN == 3
MaxCols == 2
MaxIndexLen == 2

----------------------------------------------------------------------------
(* Buffers *)

InputBufs == {"prhs0", "prhs1", "prhs2", "prhs3", "prhs4", "prhs5"}
OutputBufs == {"plhs0", "plhs1", "plhs2"}
HeapBufs == {"work", "cidx"}
Bufs == InputBufs \cup OutputBufs \cup HeapBufs

NULL == "NULL"

\* mxGetPr: the data pointer of an array, NULL for an empty array
mxGetPr(m, b) == IF m[b] = << >> THEN NULL ELSE b

\* mxIsEmpty
mxIsEmpty(m, b) == m[b] = << >>

\* mxGetM(a) * mxGetN(a): the number of elements
mxNumel(m, b) == Len(m[b])

\* mxGetN(prhs[0]): the number of columns of Q
mxGetN_Q(m, rows) == Len(m["prhs0"]) \div rows

\* mxCreateDoubleMatrix(rows,1,mxREAL): a zero-initialised column
mxCreateDoubleMatrix(rows) == [i \in 1..rows |-> 0]

\* mxCalloc(count, sizeof(double)): a zero-initialised block
mxCalloc(count) == [i \in 1..count |-> 0]

----------------------------------------------------------------------------
(* Exact arithmetic helpers *)

RECURSIVE SumTo(_, _)
SumTo(f, m) == IF m = 0 THEN 0 ELSE f[m] + SumTo(f, m - 1)

Dot(a, b) == SumTo([i \in 1..Len(a) |-> a[i] * b[i]], Len(a))

\* the square of the 2-norm
NormSq(v) == Dot(v, v)

\* sqrt(a) >= (h/2) * sqrt(b), for a, b >= 0
NormGE(a, h, b) == IF h <= 0 THEN TRUE ELSE 4 * a >= h * h * b

\* column j (1-based) of the column-major array V with leading dimension ldv
Column(V, ldv, rows, j) == [i \in 1..rows |-> V[(j - 1) * ldv + i]]

\* (int) x for a double x given in halves: truncation toward zero
IntCast(h) == IF h >= 0 THEN h \div 2 ELSE -((-h) \div 2)

----------------------------------------------------------------------------
(* The reorthogonalization core: reorth(n,k,V,ldv,vnew,normvnew,index,      *)
(* alpha,work,iflag,nre).  Column positions in index are 1-based, as the    *)
(* gateway produces them.                                                   *)

\* MODIFIED Gram-Schmidt pass from position i on: each projection is
\* subtracted at once, later columns see the updated vector
RECURSIVE MGSFrom(_, _, _, _, _, _)
MGSFrom(V, ldv, rows, index, i, v) ==
    IF i > Len(index) THEN v
    ELSE LET q == Column(V, ldv, rows, index[i])
             d == Dot(q, v)
         IN  MGSFrom(V, ldv, rows, index, i + 1, [r \in 1..rows |-> v[r] - d * q[r]])

\* a slip: the loop over the selected columns starts one position late
MGSPassSkipsFirst(V, ldv, rows, index, v) == MGSFrom(V, ldv, rows, index, 2, v)

MGSPass(V, ldv, rows, index, v) == MGSFrom(V, ldv, rows, index, 1, v)

\* CLASSICAL Gram-Schmidt: the coefficients, all taken from the pre-pass vector
CGSWork(V, ldv, rows, index, v) ==
    [i \in 1..Len(index) |-> Dot(Column(V, ldv, rows, index[i]), v)]

\* CLASSICAL Gram-Schmidt pass: the weighted sum is subtracted in one batch
CGSPass(V, ldv, rows, index, v) ==
    LET w == CGSWork(V, ldv, rows, index, v)
    IN  [r \in 1..rows |->
            v[r] - SumTo([i \in 1..Len(index) |->
                              w[i] * Column(V, ldv, rows, index[i])[r]], Len(index))]

\* one pass of the selected method (iflag 1 = CLASSICAL, 0 = MODIFIED)
Pass(iflag, V, ldv, rows, index, v) ==
    IF iflag = 1 THEN CGSPass(V, ldv, rows, index, v)
    ELSE MGSPass(V, ldv, rows, index, v)

\* the scratch workspace after a pass
WorkAfter(iflag, V, ldv, rows, index, v, work) ==
    IF iflag = 1 THEN CGSWork(V, ldv, rows, index, v) ELSE work

\* validation, done before any mutation
CoreError(rows, V, ldv, vnew, index, iflag) ==
    IF \/ Len(vnew) # rows
       \/ \E i \in 1..Len(index) : index[i] \notin 1..(Len(V) \div ldv)
    THEN "DimensionMismatch"
    ELSE IF iflag \notin {0, 1} THEN "InvalidArgument"
    ELSE ""

\* a slip: the norm is reset but the vector is left as the second pass made it
DegenerateNotZeroed(v, work) ==
    [vnew |-> v, normvnew |-> 0, work |-> work, nre |-> 2]

\* the outcome when the second pass fails the ratio test too: the vector is
\* zeroed out entirely
Degenerate(v, work) ==
    [vnew |-> [r \in 1..Len(v) |-> 0], normvnew |-> 0, work |-> work, nre |-> 2]

\* the two-pass algorithm on validated arguments
Iterate(rows, V, ldv, vnew, normvnew, index, alpha, work, iflag) ==
    LET v1 == Pass(iflag, V, ldv, rows, index, vnew)
        s1 == NormSq(v1)
        w1 == WorkAfter(iflag, V, ldv, rows, index, vnew, work)
        v2 == Pass(iflag, V, ldv, rows, index, v1)
        s2 == NormSq(v2)
        w2 == WorkAfter(iflag, V, ldv, rows, index, v1, w1)
    IN  IF NormGE(s1, alpha, normvnew)
        THEN [vnew |-> v1, normvnew |-> s1, work |-> w1, nre |-> 1]
        ELSE IF NormGE(s2, alpha, s1)
        THEN [vnew |-> v2, normvnew |-> s2, work |-> w2, nre |-> 2]
        ELSE Degenerate(v2, w2)

----------------------------------------------------------------------------
(* Inputs *)

Entries == {0, 1}
StaleNorms == {0}
Alphas == {1, 2, 4}
AlphaGarbage == {0, 2}
Methods == {0, 1, 2, 3, 4}
Garbage == {0, 1}

SeqsUpTo(S, m) == UNION {[1..l -> S] : l \in 0..m}

\* the columns a basis is built from, in a fixed order: the first two unit
\* vectors and the all-ones vector (one column when there is a single row)
AllColumns(rows) ==
    IF rows = 1 THEN <<(<<1>>)>>
    ELSE <<[i \in 1..rows |-> IF i = 1 THEN 1 ELSE 0],
           [i \in 1..rows |-> IF i = 2 THEN 1 ELSE 0],
           [i \in 1..rows |-> 1]>>

\* the members of a set of numbers in ascending order
Ascending(S) ==
    CHOOSE f \in [1..Cardinality(S) -> S] :
        \A i, j \in 1..Cardinality(S) : i < j => f[i] < f[j]

\* the bases: every choice of at most MaxCols distinct columns (INDEX supplies
\* the orders and the repetitions)
Bases(rows) ==
    {[j \in 1..Cardinality(S) |-> AllColumns(rows)[Ascending(S)[j]]] :
        S \in {T \in SUBSET DOMAIN AllColumns(rows) : Cardinality(T) <= MaxCols}}

\* column-major storage of a sequence of columns
Flatten(cols, rows) ==
    [p \in 1..(rows * Len(cols)) |-> cols[((p - 1) \div rows) + 1][((p - 1) % rows) + 1]]

Memory(Q, R, NORMR, INDEX, ALPHA, METHOD) ==
    [b \in Bufs |->
        CASE b = "prhs0" -> Q
          [] b = "prhs1" -> R
          [] b = "prhs2" -> NORMR
          [] b = "prhs3" -> INDEX
          [] b = "prhs4" -> ALPHA
          [] b = "prhs5" -> METHOD
          [] OTHER -> << >>]

Locals ==
    /\ allocated = {} /\ overread = {}
    /\ n = 0 /\ k1 = 0 /\ k = 0 /\ imethod = 0 /\ inre = 0
    /\ columnIndex = NULL /\ DEFAULT_INDEX = 0
    /\ pc = "entry" /\ err = ""

\* well-formed calls: six arguments, three outputs, R of the length of Q's
\* columns, INDEX within Q's columns; the numbers vary
InitNumeric ==
    /\ nrhs = 6 /\ nlhs = 3
    /\ QM \in 1..MaxN
    /\ \E cols \in Bases(QM) :
       \E R \in [1..QM -> Entries] :
       \E NORMR \in {NormSq(R)} \cup StaleNorms :
       \E INDEX \in SeqsUpTo(1..Len(cols), MaxIndexLen) :
       \E ALPHA \in Alphas :
       \E METHOD \in {0, 2} :
          mem = Memory(Flatten(cols, QM), R, <<NORMR>>, INDEX, <<ALPHA>>, <<METHOD>>)
    /\ Locals

\* calls of any shape on a one-column basis: arguments omitted or empty,
\* R of any length, INDEX out of range, METHOD any number
InitArgs ==
    /\ nrhs \in 4..6 /\ nlhs \in 1..3
    /\ QM = MaxN
    /\ \E R \in UNION {[1..l -> {1}] : l \in 1..(MaxN + 1)} :
       \E INDEX \in SeqsUpTo(1..2, MaxIndexLen) :
       \E ALPHA \in {<< >>, <<1>>} :
       \E METHOD \in Methods :
          mem = Memory(Flatten(<<[i \in 1..QM |-> IF i = 1 THEN 1 ELSE 0]>>, QM), R,
                       <<NormSq(R)>>, INDEX,
                       IF nrhs > 4 THEN ALPHA ELSE << >>,
                       IF nrhs > 5 THEN <<METHOD>> ELSE << >>)
    /\ Locals

Init == InitNumeric \/ InitArgs

----------------------------------------------------------------------------
(* mexFunction, step by step *)

\* lines 91-94: the argument-count checks
CheckArgs ==
    /\ pc = "entry"
    /\ IF nrhs # 6
       THEN /\ err' = "reorth requires 6 input arguments"
            /\ pc' = "error"
       ELSE IF nlhs < 2
       THEN /\ err' = "reorth requires at least 2 output arguments"
            /\ pc' = "error"
       ELSE /\ err' = err
            /\ pc' = "index"
    /\ UNCHANGED <<nrhs, nlhs, QM, mem, allocated, overread, n, k1, k, imethod,
                   inre, columnIndex, DEFAULT_INDEX>>

\* a slip: the positions are written 0-based
DefaultColumnIndexZeroBased(cols) == [j \in 1..cols |-> j - 1]

\* lines 104-105: the index list built for an empty INDEX
DefaultColumnIndex(cols) == [j \in 1..cols |-> (j - 1) + 1]

\* lines 96-108: the dimensions and the index list
ResolveIndex ==
    /\ pc = "index"
    /\ n' = QM
    /\ k1' = mxGetN_Q(mem, QM)
    /\ IF mxNumel(mem, "prhs3") = 0 \/ mxIsEmpty(mem, "prhs3")
       THEN /\ mem' = [mem EXCEPT !["cidx"] = DefaultColumnIndex(k1')]
            /\ allocated' = allocated \cup {"cidx"}
            /\ k' = k1'
            /\ DEFAULT_INDEX' = 1
            /\ columnIndex' = "cidx"
       ELSE /\ columnIndex' = mxGetPr(mem, "prhs3")
            /\ k' = mxNumel(mem, "prhs3")
            /\ UNCHANGED <<mem, allocated, DEFAULT_INDEX>>
    /\ pc' = "create"
    /\ UNCHANGED <<nrhs, nlhs, QM, overread, imethod, inre, err>>

\* lines 111-116: the outputs and the scratch workspace
CreateOutputs ==
    /\ pc = "create"
    /\ mem' = [mem EXCEPT !["plhs0"] = mxCreateDoubleMatrix(n),
                          !["plhs1"] = mxCreateDoubleMatrix(1),
                          !["plhs2"] = IF nlhs > 2 THEN mxCreateDoubleMatrix(1) ELSE @,
                          !["work"] = mxCalloc(k)]
    /\ allocated' = allocated \cup {"work"}
    /\ pc' = "copy"
    /\ UNCHANGED <<nrhs, nlhs, QM, overread, n, k1, k, imethod, inre, columnIndex,
                   DEFAULT_INDEX, err>>

\* a slip: the core is handed the caller's R itself
VnewArgInPlace == "prhs1"

\* the pointers handed to the core (lines 131-133)
VnewArg == "plhs0"
NormvnewArg == "plhs1"
WorkArg == "work"
AlphaArg(m) == mxGetPr(m, "prhs4")

\* a slip: the norm estimate is recomputed from R
NormEstimateRecomputed(m) == <<NormSq(m["prhs1"])>>

\* line 119: the norm estimate is the caller's NORMR, copied
NormEstimateCopy(m) == <<m["prhs2"][1]>>

\* lines 118-123: R and NORMR are copied into the outputs, METHOD is converted.
\* memcpy reads n doubles from R whatever R's length is: reading past the end
\* of R yields whatever lies there, or faults.
CopyInputs ==
    /\ pc = "copy"
    /\ LET R == mem["prhs1"] IN
       IF Len(R) >= n
       THEN /\ mem' = [mem EXCEPT ![VnewArg] = SubSeq(R, 1, n),
                                  ![NormvnewArg] = NormEstimateCopy(mem)]
            /\ imethod' = IntCast(mem["prhs5"][1])
            /\ inre' = 0
            /\ pc' = "call"
            /\ UNCHANGED <<overread, err>>
       ELSE /\ overread' = overread \cup {"prhs1"}
            /\ \/ /\ \E tail \in [1..(n - Len(R)) -> Garbage] :
                        mem' = [mem EXCEPT ![VnewArg] = R \o tail,
                                           ![NormvnewArg] = NormEstimateCopy(mem)]
                  /\ imethod' = IntCast(mem["prhs5"][1])
                  /\ inre' = 0
                  /\ pc' = "call"
                  /\ err' = err
               \/ /\ pc' = "crashed"
                  /\ err' = "segmentation violation"
                  /\ UNCHANGED <<mem, imethod, inre>>
    /\ UNCHANGED <<nrhs, nlhs, QM, allocated, n, k1, k, columnIndex, DEFAULT_INDEX>>

\* the core's effect on memory when called with alpha
CoreReturns(alpha) ==
    LET V == mem["prhs0"]
        index == SubSeq(mem[columnIndex], 1, k)
        e == CoreError(n, V, n, mem[VnewArg], index, imethod)
        r == Iterate(n, V, n, mem[VnewArg], mem[NormvnewArg][1], index, alpha,
                     mem[WorkArg], imethod)
    IN  IF e # ""
        THEN /\ err' = e
             /\ pc' = "error"
             /\ UNCHANGED <<mem, inre>>
        ELSE /\ mem' = [b \in Bufs |->
                           IF b = VnewArg THEN r.vnew
                           ELSE IF b = NormvnewArg THEN <<r.normvnew>>
                           ELSE IF b = WorkArg THEN r.work
                           ELSE mem[b]]
             /\ inre' = r.nre
             /\ pc' = "return"
             /\ err' = err

\* lines 131-133: the call of the core.  With ALPHA empty the core is handed
\* a null pointer for alpha: reading it faults or yields an arbitrary number.
CallCore ==
    /\ pc = "call"
    /\ IF AlphaArg(mem) # NULL
       THEN CoreReturns(mem[AlphaArg(mem)][1])
       ELSE \/ \E a \in AlphaGarbage : CoreReturns(a)
            \/ /\ pc' = "crashed"
               /\ err' = "segmentation violation"
               /\ UNCHANGED <<mem, inre>>
    /\ UNCHANGED <<nrhs, nlhs, QM, allocated, overread, n, k1, k, imethod,
                   columnIndex, DEFAULT_INDEX>>

\* line 141: the value stored in the third output
NREValue(passes, cols) == passes * cols

\* lines 140-145: the third output, and the scratch buffers are freed
Finish ==
    /\ pc = "return"
    /\ mem' = [b \in Bufs |->
                  IF b = "plhs2" /\ nlhs > 2 THEN <<NREValue(inre, k)>>
                  ELSE IF b = "work" THEN << >>
                  ELSE IF b = "cidx" /\ DEFAULT_INDEX = 1 THEN << >>
                  ELSE mem[b]]
    /\ allocated' = (allocated \ {"work"}) \ (IF DEFAULT_INDEX = 1 THEN {"cidx"} ELSE {})
    /\ pc' = "done"
    /\ UNCHANGED <<nrhs, nlhs, QM, overread, n, k1, k, imethod, inre, columnIndex,
                   DEFAULT_INDEX, err>>

Next == CheckArgs \/ ResolveIndex \/ CreateOutputs \/ CopyInputs \/ CallCore \/ Finish

Spec == Init /\ [][Next]_vars

----------------------------------------------------------------------------
(* Vocabulary of the properties *)

ArgQ == mem["prhs0"]
ArgR == mem["prhs1"]
ArgNORMR == mem["prhs2"][1]
ArgINDEX == mem["prhs3"]
ArgALPHA == mem["prhs4"]

\* the call passes the argument-count checks
Accepted == nrhs = 6 /\ nlhs >= 2

\* the core has been called and has returned a result
CoreReturned == pc = "return"

\* the index list the core was called with
CoreIndex == SubSeq(mem[columnIndex], 1, k)

\* R has the length of Q's columns and ALPHA is given
WellFormed == Len(ArgR) = QM /\ ArgALPHA # << >>

\* the result of the call, as the caller sees it after the core returned
Result == [vnew |-> mem["plhs0"], normvnew |-> mem["plhs1"][1], nre |-> inre]

\* the vector and its squared norm after one and after two passes over the inputs
AfterFirst == Pass(imethod, ArgQ, QM, QM, CoreIndex, ArgR)
AfterSecond == Pass(imethod, ArgQ, QM, QM, CoreIndex, AfterFirst)

FirstTestPasses == NormGE(NormSq(AfterFirst), ArgALPHA[1], ArgNORMR)
SecondTestPasses == NormGE(NormSq(AfterSecond), ArgALPHA[1], NormSq(AfterFirst))

ZeroOutcome ==
    /\ \A r \in 1..Len(mem["plhs0"]) : mem["plhs0"][r] = 0
    /\ Len(mem["plhs0"]) = QM
    /\ mem["plhs1"] = <<0>>
    /\ inre = 2

\* the selected columns are mutually orthonormal
SelectedOrthonormal ==
    \A i, j \in 1..Len(CoreIndex) :
        Dot(Column(ArgQ, QM, QM, CoreIndex[i]), Column(ArgQ, QM, QM, CoreIndex[j]))
            = (IF i = j THEN 1 ELSE 0)

\* R is an exact linear combination of the selected orthonormal columns
InSpanOfSelected ==
    /\ Len(CoreIndex) >= 1
    /\ SelectedOrthonormal
    /\ ArgR = [r \in 1..QM |->
                  SumTo([i \in 1..Len(CoreIndex) |->
                            Dot(Column(ArgQ, QM, QM, CoreIndex[i]), ArgR)
                                * Column(ArgQ, QM, QM, CoreIndex[i])[r]],
                        Len(CoreIndex))]

----------------------------------------------------------------------------
(* Properties *)

\* C1: whenever a third output is requested, the value returned as NRE is the
\* number of reorthogonalization passes performed, hence 1 or 2, for every
\* number k of selected columns.
C1_NREIsPassCount ==
    (pc = "done" /\ nlhs > 2) =>
        /\ mem["plhs2"] = <<inre>>
        /\ mem["plhs2"][1] \in {1, 2}

\* C2: when the norm after the first pass is at least alpha times the
\* caller-supplied NORMR, the call returns after exactly one pass: the vector
\* is the first-pass result, the norm is the recomputed norm, numPasses = 1.
C2_OnePassWhenAccepted ==
    (CoreReturned /\ WellFormed /\ FirstTestPasses) =>
        Result = [vnew |-> AfterFirst, normvnew |-> NormSq(AfterFirst), nre |-> 1]

C2_Witness ==
    /\ CoreReturned /\ WellFormed /\ FirstTestPasses
    /\ k >= 1
    /\ mem["plhs0"] # ArgR
    /\ ArgNORMR # NormSq(ArgR)
    /\ inre = 1

\* C3 as stated: when both passes fail the ratio test the result is the zero
\* vector, norm 0, numPasses = 2; and this is the outcome for every vector that
\* is an exact linear combination of the selected orthonormal columns.
C3_Original ==
    (CoreReturned /\ WellFormed) =>
        /\ (~FirstTestPasses /\ ~SecondTestPasses) => ZeroOutcome
        /\ InSpanOfSelected => ZeroOutcome

\* C3 amended: when both passes fail the ratio test the result is the zero
\* vector, norm 0, numPasses = 2; and this is the outcome for a vector that is
\* an exact linear combination of the selected orthonormal columns provided
\* alpha * NORMR > 0 (otherwise the first test is passed and numPasses = 1).
C3_DegenerateOutcome ==
    (CoreReturned /\ WellFormed) =>
        /\ (~FirstTestPasses /\ ~SecondTestPasses) => ZeroOutcome
        /\ (InSpanOfSelected /\ ArgALPHA[1] > 0 /\ ArgNORMR > 0) => ZeroOutcome

C3_Witness ==
    /\ CoreReturned /\ WellFormed
    /\ k >= 1
    /\ ~FirstTestPasses /\ ~SecondTestPasses
    /\ NormSq(AfterSecond) > 0
    /\ ZeroOutcome

\* C4 as stated: for an empty INDEX the core is handed k = number of columns
\* of Q and the index list {0, 1, ..., k-1}.
C4_Original ==
    (pc \in {"create", "copy", "call"} /\ ArgINDEX = << >>) =>
        /\ k = Len(ArgQ) \div QM
        /\ mem[columnIndex] = [j \in 1..k |-> j - 1]

\* C4 amended: for an empty INDEX the core is handed k = number of columns of
\* Q and the list of the 1-based positions 1, 2, ..., k, which names every
\* column of Q exactly once in ascending order.
C4_DefaultIndexAllColumns ==
    (pc \in {"create", "copy", "call"} /\ ArgINDEX = << >>) =>
        /\ k = Len(ArgQ) \div QM
        /\ columnIndex = "cidx"
        /\ Len(mem[columnIndex]) = k
        /\ \A j \in 1..k : mem[columnIndex][j] = j
        /\ \A c \in 1..(Len(ArgQ) \div QM) :
              Cardinality({j \in 1..k : mem[columnIndex][j] = c}) = 1

C4_Witness ==
    /\ pc = "call" /\ ArgINDEX = << >>
    /\ k >= 2
    /\ mem[columnIndex] = <<1, 2>>

\* C5 as stated: a call leaves Q, R, NORMR, INDEX, ALPHA (and METHOD)
\* unchanged, and writes no buffer other than the output vector, the output
\* norm, the pass-count output and the scratch workspace.
C5_Original ==
    [][/\ \A b \in InputBufs : mem'[b] = mem[b]
       /\ \A b \in Bufs : mem'[b] # mem[b] => b \in {"plhs0", "plhs1", "plhs2", "work"}]_vars

\* C5 amended: a call leaves its inputs unchanged, and writes no buffer other
\* than the output vector, the output norm, the pass-count output, the scratch
\* workspace and, for an empty INDEX, the temporary default index list.
C5_InputsUnchanged ==
    [][/\ \A b \in InputBufs : mem'[b] = mem[b]
       /\ \A b \in Bufs : mem'[b] # mem[b] =>
             b \in {"plhs0", "plhs1", "plhs2", "work", "cidx"}
       /\ mem'["cidx"] # mem["cidx"] => ArgINDEX = << >>]_vars

C5_Witness ==
    /\ pc = "done"
    /\ k >= 1
    /\ mem["plhs0"] # ArgR
    /\ mem["plhs1"] # mem["prhs2"]
    /\ mem["plhs2"] # << >>

\* C6: a call whose vector length differs from the basis column length, or
\* whose index list names a position outside the basis columns, fails with
\* DimensionMismatch before any buffer is read past its length and before the
\* vector is touched; no such call reaches the core.
C6_DimensionMismatchFirst ==
    (/\ Accepted
     /\ \/ Len(ArgR) # QM
        \/ \E i \in 1..Len(ArgINDEX) : ArgINDEX[i] \notin 1..(Len(ArgQ) \div QM))
    => /\ overread = {}
       /\ pc \notin {"call", "return", "done", "crashed"}
       /\ pc = "error" => err = "DimensionMismatch" /\ mem["plhs0"] = << >>

\* C7: a call whose method selector (METHOD converted to an integer) is
\* neither 0 nor 1 fails with InvalidArgument without the core being invoked;
\* only 0 and 1 ever reach the core.
C7_OnlyValidMethodsReachCore ==
    /\ pc \in {"call", "return", "done"} => imethod \in {0, 1}
    /\ (Accepted /\ IntCast(mem["prhs5"][1]) \notin {0, 1}) =>
          /\ pc \notin {"call", "return", "done", "crashed"}
          /\ pc = "error" => err = "InvalidArgument"

\* C8: when ALPHA is not specified (omitted, or given as []), the call is
\* accepted and the ratio tests are evaluated with alpha = 0.5.
C8_DefaultAlpha ==
    (nlhs >= 2 /\ nrhs >= 4 /\ ArgALPHA = << >>) =>
        /\ pc \notin {"error", "crashed"}
        /\ (CoreReturned /\ Len(ArgR) = QM) =>
              Result.nre = (IF NormGE(NormSq(AfterFirst), 1, ArgNORMR) THEN 1 ELSE 2)

\* C9: where the core is invoked, the number k of selected indices is at most
\* the number of columns of Q, for every INDEX the gateway accepts.
C9_KAtMostColumns ==
    pc = "call" => k <= Len(ArgQ) \div QM

\* C10: for mutually orthonormal selected columns and the same vector, norm
\* estimate and alpha, MODIFIED and CLASSICAL Gram-Schmidt return the same
\* vector, the same norm and the same numPasses.
C10_MethodsAgree ==
    (CoreReturned /\ WellFormed /\ SelectedOrthonormal) =>
        LET other == Iterate(QM, ArgQ, QM, ArgR, ArgNORMR, CoreIndex, ArgALPHA[1],
                             mxCalloc(k), 1 - imethod)
        IN  Result = [vnew |-> other.vnew, normvnew |-> other.normvnew, nre |-> other.nre]

C10_Witness ==
    /\ CoreReturned /\ WellFormed /\ SelectedOrthonormal
    /\ Len(CoreIndex) >= 2
    /\ mem["plhs0"] # ArgR
    /\ \E r \in 1..QM : mem["plhs0"][r] # 0

====
